---- MODULE Spec2Model ----
(***************************************************************************)
(* Model of the AFIP client classes ElectronicBilling (wsfe) and           *)
(* RegisterScopeFour (ws_sr_padron_a4).                                    *)
(*                                                                         *)
(* JavaScript objects are functions from property names to values, arrays  *)
(* are tagged records [arr |-> <<...>>] (so that Array.isArray can be      *)
(* told apart from an object), strings that the code searches or builds    *)
(* are sequences of words, and every asynchronous call is split at the     *)
(* awaits on the two external collaborators: the auth delegate             *)
(* (afip.GetServiceTA) and the SOAP transport (super.executeRequest).      *)
(***************************************************************************)
EXTENDS Integers, Sequences, FiniteSets, TLC

VARIABLES pc, op, frame, argCred, callerData, dataBefore, sent, delegateLog,
          resp, result, lastAuth

vars == <<pc, op, frame, argCred, callerData, dataBefore, sent, delegateLog,
          resp, result, lastAuth>>

(***************************************************************************)
(* Bounds and program constants                                            *)
(***************************************************************************)
\* Largest voucher number the remote authorizes in the model.
MaxVoucher == 2

\* err.code value that getVoucherInfo treats as "voucher not found".
NotFoundCode == 602

\* this.afip.CUIT, the taxpayer the client is configured for.
CUIT == "20111111112"

Callers == {"c1", "c2"}

(***************************************************************************)
(* JavaScript values                                                       *)
(***************************************************************************)
Undefined == [undefined |-> TRUE]

Null == [null |-> TRUE]

JsTrue == [bool |-> TRUE]

JsFalse == [bool |-> FALSE]

EmptyObject == [k \in {} |-> Undefined]

\* ToBoolean of an object-valued slot: only undefined and null are falsy
\* (objects and arrays, the empty array included, are truthy).
Truthy(v) == v # Undefined /\ v # Null

Has(obj, k) == k \in DOMAIN obj

\* obj[k] = v
Put(obj, k, v) == [x \in (DOMAIN obj) \cup {k} |-> IF x = k THEN v ELSE obj[x]]

\* delete obj[k]
Del(obj, k) == [x \in (DOMAIN obj) \ {k} |-> obj[x]]

\* obj[k] as an expression: undefined when the property is absent
Get(obj, k) == IF Has(obj, k) THEN obj[k] ELSE Undefined

\* Object.assign(target, source), as the value target holds afterwards
ObjectAssign(target, source) ==
    [x \in (DOMAIN target) \cup (DOMAIN source) |->
        IF x \in DOMAIN source THEN source[x] ELSE target[x]]

\* { [k]: v }
Obj1(k, v) == [x \in {k} |-> v]

Arr(s) == [arr |-> s]

\* Array.isArray(v)
IsArray(v) == "arr" \in DOMAIN v

(***************************************************************************)
(* Promise completions and thrown errors                                   *)
(***************************************************************************)
Pending == [status |-> "pending"]

Resolved(v) == [status |-> "resolved", value |-> v]

Rejected(e) == [status |-> "rejected", err |-> e]

IsResolved(r) == r.status = "resolved"

IsRejected(r) == r.status = "rejected"

\* The TypeError of reading a property of null or undefined.
TypeError == [name |-> "TypeError", message |-> <<"Cannot", "read", "properties">>]

\* new Error(message, x): the second argument is the options bag, from which
\* only an object's "cause" is read; the error gets no "code" property.
NewError(message, options) == [name |-> "Error", message |-> message]

\* r.then(v => v[k]): a property read of the resolved value, which throws
\* on null and undefined.
ThenProp(r, k) ==
    IF ~IsResolved(r) THEN r
    ELSE IF ~Truthy(r.value) THEN Rejected(TypeError)
    ELSE Resolved(Get(r.value, k))

\* Mutant of Contains: haystack.indexOf(needle) === 0, a match at the start only.
Contains_AtStart(haystack, needle) ==
    /\ Len(needle) <= Len(haystack)
    /\ \A j \in 1 .. Len(needle) : haystack[j] = needle[j]

\* haystack.indexOf(needle) !== -1, on strings as sequences of words
Contains(haystack, needle) ==
    \E i \in 0 .. (Len(haystack) - Len(needle)) :
        \A j \in 1 .. Len(needle) : haystack[i + j] = needle[j]

(***************************************************************************)
(* ElectronicBilling: pure parts                                           *)
(***************************************************************************)
Digits == {"0", "1", "2", "3", "4", "5", "6", "7", "8", "9"}

\* date.toString().replace(/(\d{4})(\d{2})(\d{2})/, "$1-$2-$3") on a string
\* given as its sequence of characters: the first run of eight digits is
\* rewritten, anything else is left as it is.
formatDate(date) ==
    LET starts == {i \in 1 .. (Len(date) - 7) :
                      \A j \in 0 .. 7 : date[i + j] \in Digits}
    IN  IF starts = {} THEN date
        ELSE LET i == CHOOSE m \in starts : \A n \in starts : m <= n
             IN  SubSeq(date, 1, i - 1) \o SubSeq(date, i, i + 3) \o <<"-">>
                 \o SubSeq(date, i + 4, i + 5) \o <<"-">>
                 \o SubSeq(date, i + 6, i + 7) \o SubSeq(date, i + 8, Len(date))

\* operation + "Result"
ResultKey(operation) == operation \o "Result"

\* Mutant of getWSInitialRequest: the FEDummy case is missing.
getWSInitialRequest_AuthAlways(operation, credential) ==
    [Auth |-> [Token |-> Get(credential, "token"),
               Sign  |-> Get(credential, "sign"),
               Cuit  |-> CUIT]]

\* getWSInitialRequest once the credential is known: credential is the
\* tokenAndSign argument when it is truthy, else what GetServiceTA gave.
getWSInitialRequest(operation, credential) ==
    IF operation = "FEDummy" THEN EmptyObject
    ELSE [Auth |-> [Token |-> Get(credential, "token"),
                    Sign  |-> Get(credential, "sign"),
                    Cuit  |-> CUIT]]

\* Whether getWSInitialRequest awaits afip.GetServiceTA.
NeedsServiceTA(operation, tokenAndSign) ==
    operation # "FEDummy" /\ ~Truthy(tokenAndSign)

\* Mutant of FirstIfArray: the last element is taken.
LastIfArray(d) == IF IsArray(d) THEN d.arr[Len(d.arr)] ELSE d

\* if (Array.isArray(d)) d = d[0]
FirstIfArray(d) == IF IsArray(d) THEN d.arr[1] ELSE d

\* Mutant of NormalizeDetail: the detail array is not collapsed.
NormalizeDetail_NoCollapse(operation, res) ==
    IF operation = "FECAESolicitar" /\ Truthy(Get(res, "FeDetResp"))
    THEN LET det == res.FeDetResp.FECAEDetResponse
         IN  IF Truthy(Get(det, "Observaciones")) /\ det.Resultado # "A"
             THEN Put(res, "Errors", [Err |-> det.Observaciones.Obs])
             ELSE res
    ELSE res

\* _checkErrors, lines 360-368: res after the FECAESolicitar special case.
NormalizeDetail(operation, res) ==
    IF operation = "FECAESolicitar" /\ Truthy(Get(res, "FeDetResp"))
    THEN LET det  == FirstIfArray(res.FeDetResp.FECAEDetResponse)
             res1 == [res EXCEPT !.FeDetResp.FECAEDetResponse = det]
         IN  IF Truthy(Get(det, "Observaciones")) /\ det.Resultado # "A"
             THEN Put(res1, "Errors", [Err |-> det.Observaciones.Obs])
             ELSE res1
    ELSE res

\* `(${err.Code}) ${err.Msg}`
ErrorMessage(err) == <<"(", ToString(err.Code), ") ">> \o err.Msg

\* _checkErrors: whether it threw, what it threw, and results as it left it
\* (the method rewrites the response in place).
checkErrors(operation, results) ==
    LET res == NormalizeDetail(operation, results[ResultKey(operation)])
        out == [results EXCEPT ![ResultKey(operation)] = res]
    IN  IF Truthy(Get(res, "Errors"))
        THEN LET err == FirstIfArray(res.Errors.Err)
             IN  [threw |-> TRUE, err |-> NewError(ErrorMessage(err), err.Code),
                  results |-> out]
        ELSE [threw |-> FALSE, err |-> Undefined, results |-> out]

\* ElectronicBilling.executeRequest after super.executeRequest settled with t.
executeRequest(operation, t) ==
    IF IsRejected(t) THEN t
    ELSE LET chk == checkErrors(operation, t.value)
         IN  IF chk.threw THEN Rejected(chk.err)
             ELSE Resolved(Get(chk.results, ResultKey(operation)))

PluralFields == {"Tributos", "Iva", "CbtesAsoc", "Compradores", "Opcionales"}

Singular(k) ==
    CASE k = "Tributos"    -> "Tributo"
      [] k = "Iva"         -> "AlicIva"
      [] k = "CbtesAsoc"   -> "CbteAsoc"
      [] k = "Compradores" -> "Comprador"
      [] k = "Opcionales"  -> "Opcional"

\* Mutant of WrapField: an empty list counts as absent.
WrapField_NonEmpty(data, k) ==
    IF Truthy(Get(data, k)) /\ Len(data[k].arr) > 0
    THEN Put(data, k, Obj1(Singular(k), data[k])) ELSE data

\* if (data[k]) data[k] = { [singular]: data[k] }
WrapField(data, k) ==
    IF Truthy(Get(data, k)) THEN Put(data, k, Obj1(Singular(k), data[k])) ELSE data

\* createVoucher, lines 64-91: the request built from a copy of data.
createVoucherRequest(dataArg) ==
    LET data  == ObjectAssign(EmptyObject, dataArg)
        cab   == [CantReg  |-> data["CbteHasta"] - data["CbteDesde"] + 1,
                  PtoVta   |-> Get(data, "PtoVta"),
                  CbteTipo |-> Get(data, "CbteTipo")]
        data1 == Del(Del(Del(data, "CantReg"), "PtoVta"), "CbteTipo")
        data2 == WrapField(WrapField(WrapField(WrapField(WrapField(data1,
                     "Tributos"), "Iva"), "CbtesAsoc"), "Compradores"), "Opcionales")
    IN  [FeCAEReq |-> [FeCabReq |-> cab,
                       FeDetReq |-> [FECAEDetRequest |-> data2]]]

\* createVoucher, line 63: the credential createVoucher passes on.
createVoucherCredential(data, tokenAndSign) == Get(data, "token")

\* createVoucher, lines 95-106: what it returns for the value of executeRequest.
createVoucherReturn(results, returnResponse) ==
    IF returnResponse = JsTrue THEN Resolved(results)
    ELSE IF ~Truthy(Get(results, "FeDetResp")) THEN Rejected(TypeError)
    ELSE LET det == FirstIfArray(results.FeDetResp.FECAEDetResponse)
         IN  IF ~Has(det, "CAEFchVto") THEN Rejected(TypeError)
             ELSE Resolved([CAE       |-> Get(det, "CAE"),
                            CAEFchVto |-> formatDate(det.CAEFchVto)])

\* getVoucherInfo, lines 158-166: the catch handler, then result.ResultGet.
getVoucherInfoReturn(e) ==
    LET caught == IF IsRejected(e)
                  THEN IF Has(e.err, "code") /\ e.err.code = NotFoundCode
                       THEN Resolved(Null) ELSE e
                  ELSE e
    IN  ThenProp(caught, "ResultGet")

(***************************************************************************)
(* RegisterScopeFour: pure parts                                           *)
(***************************************************************************)
NoExiste == <<"No", "existe">>

\* RegisterScopeFour.executeRequest after super.executeRequest settled with t.
rsExecuteRequest(operation, t) ==
    IF IsRejected(t) THEN t
    ELSE IF ~Truthy(t.value) THEN Rejected(TypeError)
    ELSE Resolved(Get(t.value,
                      IF operation = "getPersona" THEN "personaReturn" ELSE "return"))

\* getTaxpayerDetails, lines 48-53
getTaxpayerParams(credential, identifier) ==
    [token |-> Get(credential, "token"), sign |-> Get(credential, "sign"),
     cuitRepresentada |-> CUIT, idPersona |-> identifier]

\* getTaxpayerDetails, lines 55-63: .then(res => res.persona).catch(...)
getTaxpayerDetailsReturn(e) ==
    LET t == ThenProp(e, "persona")
    IN  IF IsRejected(t)
        THEN IF Contains(t.err.message, NoExiste) THEN Resolved(Null) ELSE t
        ELSE t

(***************************************************************************)
(* The collaborators: the auth delegate and the remote service behind the  *)
(* SOAP transport                                                          *)
(***************************************************************************)
\* The credential afip.GetServiceTA resolves to.
ServiceTA == [token |-> "ta-token", sign |-> "ta-sign"]

\* The credential a caller may hold from an earlier ticket.
CallerCredential == [token |-> "caller-token", sign |-> "caller-sign"]

CredentialArgs == {Undefined, CallerCredential}

SalesPoints == {1}

VoucherTypes == {6}

ErrMsg(code) ==
    CASE code = 602   -> <<"Sin", "Resultados">>
      [] code = 600   -> <<"ValidacionDeToken">>
      [] code = 10016 -> <<"Numero", "no", "corresponde">>
      [] code = 10015 -> <<"DocNro", "invalido">>

ErrEntry(code) == [Code |-> code, Msg |-> ErrMsg(code)]

\* A top-level error list: one entry, or several.
ErrorLists ==
    {[Err |-> ErrEntry(602)], [Err |-> ErrEntry(600)],
     [Err |-> Arr(<<ErrEntry(600), ErrEntry(602)>>)]}

\* The observations of a detail: one entry, or several.
ObservationLists ==
    {[Obs |-> ErrEntry(10016)],
     [Obs |-> Arr(<<ErrEntry(10016), ErrEntry(10015)>>)],
     [Obs |-> Arr(<<ErrEntry(10015), ErrEntry(10016)>>)]}

ApprovedDetail == [Resultado |-> "A", CAE |-> "71234567890123",
                   CAEFchVto |-> <<"2", "0", "2", "3", "0", "4", "1", "5">>]

RejectedDetail == [Resultado |-> "R", CAE |-> "", CAEFchVto |-> <<>>]

\* The remote returns a single detail as the element or as a one-element array.
DetailShapes(d) == {d, Arr(<<d>>)}

\* What the remote may answer to FECAESolicitar when it authorizes.
ApprovedResponses ==
    {[FeDetResp |-> [FECAEDetResponse |-> s]] :
        s \in UNION {DetailShapes(d) :
                 d \in {ApprovedDetail,
                        Put(ApprovedDetail, "Observaciones", [Obs |-> ErrEntry(10015)])}}}

\* What the remote may answer to FECAESolicitar when it does not authorize.
RejectedResponses ==
    LET details == {RejectedDetail}
                   \cup {Put(RejectedDetail, "Observaciones", o) : o \in ObservationLists}
        withDet == {[FeDetResp |-> [FECAEDetResponse |-> s]] :
                       s \in UNION {DetailShapes(d) : d \in details}}
    IN  withDet
        \cup {Put(r, "Errors", [Err |-> ErrEntry(600)]) : r \in withDet}
        \cup {[Errors |-> e] : e \in ErrorLists}

\* The remote authorizes exactly the voucher following its last one.
RemoteAccepts(params, last) ==
    LET cab == params.FeCAEReq.FeCabReq
        det == params.FeCAEReq.FeDetReq.FECAEDetRequest
    IN  /\ last < MaxVoucher
        /\ cab.CantReg = 1
        /\ det.CbteDesde = last + 1
        /\ det.CbteHasta = last + 1

\* The list element of each FEParamGet* result in the service's schema.
ReferenceField(operation) ==
    CASE operation = "FEParamGetPtosVenta"      -> "PtoVenta"
      [] operation = "FEParamGetTiposCbte"      -> "CbteTipo"
      [] operation = "FEParamGetTiposConcepto"  -> "ConceptoTipo"
      [] operation = "FEParamGetTiposDoc"       -> "DocTipo"
      [] operation = "FEParamGetTiposIva"       -> "IvaTipo"
      [] operation = "FEParamGetTiposMonedas"   -> "Moneda"
      [] operation = "FEParamGetTiposOpcional"  -> "OpcionalTipo"
      [] operation = "FEParamGetTiposTributos"  -> "TributoTipo"

\* The answers of the remote to one request, each with the last authorized
\* number it leaves: <<res, last'>>, res being the <operation>Result subtree.
RemoteAnswers(operation, params, last) ==
    CASE operation = "FECAESolicitar" ->
           IF RemoteAccepts(params, last)
           THEN {<<r, last + 1>> : r \in ApprovedResponses}
           ELSE {<<r, last>> : r \in RejectedResponses}
      [] operation = "FECompUltimoAutorizado" ->
           {<<[PtoVta |-> params.PtoVta, CbteTipo |-> params.CbteTipo,
               CbteNro |-> last], last>>}
           \cup {<<[Errors |-> [Err |-> ErrEntry(600)]], last>>}
      [] operation = "FECompConsultar" ->
           (IF params.FeCompConsReq.CbteNro <= last
            THEN {<<[ResultGet |-> [CbteDesde |-> params.FeCompConsReq.CbteNro,
                                    Resultado |-> "A"]], last>>}
            ELSE {<<[Errors |-> e], last>> :
                     e \in {[Err |-> ErrEntry(602)],
                            [Err |-> Arr(<<ErrEntry(602), ErrEntry(600)>>)]}})
           \cup {<<[Errors |-> [Err |-> ErrEntry(600)]], last>>}
      [] operation \in {"FECAEASolicitar", "FECAEAConsultar"} ->
           {<<[ResultGet |-> [CAEA |-> "21043476341977", Periodo |-> params.Periodo,
                              Orden |-> params.Orden]], last>>,
            <<[Errors |-> [Err |-> ErrEntry(600)]], last>>}
      [] operation = "FEDummy" ->
           {<<[AppServer |-> "OK", DbServer |-> "OK", AuthServer |-> "OK"], last>>}
      [] OTHER ->
           {<<[ResultGet |-> Obj1(ReferenceField(operation), Arr(<<[Id |-> 1, Desc |-> "uno"]>>))], last>>,
            <<[Errors |-> [Err |-> ErrEntry(600)]], last>>}

\* The taxpayers the registry knows.
KnownPersonas == {20001}

Identifiers == {20001, 20002}

\* The registry's answers: the response tree of a successful call.
RegistryAnswers(operation, params) ==
    IF operation = "getPersona"
    THEN IF params.idPersona \in KnownPersonas
         THEN {[personaReturn |-> [persona  |-> [idPersona |-> params.idPersona,
                                                 estadoClave |-> "ACTIVO"],
                                   metadata |-> [servidor |-> "a4"]]]}
         ELSE {}
    ELSE {[return |-> [appserver |-> "OK", dbserver |-> "OK", authserver |-> "OK"]]}

\* The failures the transport reports for a registry call: SOAP faults of the
\* registry, and network failures.
RegistryFailures(operation, params) ==
    (IF operation = "getPersona" /\ params.idPersona \notin KnownPersonas
     THEN {[name |-> "Error", message |-> <<"No", "existe", "persona", "con", "ese", "Id">>],
           [name |-> "Error", message |-> <<"soap:Server:", "No", "existe", "persona">>]}
     ELSE {})
    \cup {[name |-> "Error", message |-> <<"No", "autorizado">>],
          [name |-> "Error", message |-> <<"existe", "No">>],
          [name |-> "Error", message |-> <<"ECONNRESET">>]}

\* The failures the transport reports for an invoicing call.
TransportFailures ==
    {[name |-> "Error", message |-> <<"ECONNRESET">>],
     [name |-> "Error", message |-> <<"soap:Server">>, code |-> 602]}

\* The failure of afip.GetServiceTA.
ServiceTAFailure == [name |-> "Error", message |-> <<"No", "valid", "TA">>]

(***************************************************************************)
(* State                                                                   *)
(*   pc[p]          where caller p's call stands: "idle", "auth" (awaiting *)
(*                  GetServiceTA), "transport" (awaiting the transport),   *)
(*                  "done"                                                 *)
(*   op[p]          the public method p called                             *)
(*   frame[p]       the locals of the call that is awaiting                *)
(*   argCred[p]     the tokenAndSign argument p passed                     *)
(*   callerData[p]  p's own data object, as it is now                      *)
(*   dataBefore[p]  p's data object as it was when the call started        *)
(*   sent[p]        the requests handed to the transport during the call   *)
(*   delegateLog[p] the services GetServiceTA was asked for in the call    *)
(*   resp[p]        how the transport settled each request of the call     *)
(*   result[p]      how the call settled                                   *)
(*   lastAuth       the remote's last authorized voucher number            *)
(***************************************************************************)
NoFrame ==
    [operation |-> "", params |-> EmptyObject, tokenAndSign |-> Undefined,
     cont |-> "", field |-> "", returnResponse |-> JsFalse, voucherNumber |-> 0,
     identifier |-> 0]

Init ==
    /\ pc = [p \in Callers |-> "idle"]
    /\ op = [p \in Callers |-> ""]
    /\ frame = [p \in Callers |-> NoFrame]
    /\ argCred = [p \in Callers |-> Undefined]
    /\ callerData = [p \in Callers |-> EmptyObject]
    /\ dataBefore = [p \in Callers |-> EmptyObject]
    /\ sent = [p \in Callers |-> <<>>]
    /\ delegateLog = [p \in Callers |-> <<>>]
    /\ resp = [p \in Callers |-> <<>>]
    /\ result = [p \in Callers |-> Pending]
    /\ lastAuth = 0

\* ElectronicBilling.executeRequest up to its first await that leaves the
\* process: either GetServiceTA is asked, or the auth block is merged into
\* params and the request handed to the transport.
BeginExecuteRequest(p, fr) ==
    IF NeedsServiceTA(fr.operation, fr.tokenAndSign)
    THEN /\ pc' = [pc EXCEPT ![p] = "auth"]
         /\ frame' = [frame EXCEPT ![p] = fr]
         /\ delegateLog' = [delegateLog EXCEPT
                               ![p] = Append(@, "ws_sr_constancia_inscripcion")]
         /\ sent' = sent
    ELSE LET params == ObjectAssign(fr.params,
                           getWSInitialRequest(fr.operation, fr.tokenAndSign))
         IN  /\ pc' = [pc EXCEPT ![p] = "transport"]
             /\ frame' = [frame EXCEPT ![p] = [fr EXCEPT !.params = params]]
             /\ sent' = [sent EXCEPT ![p] = Append(@,
                            [operation |-> fr.operation, params |-> params,
                             tokenAndSign |-> fr.tokenAndSign, fresh |-> FALSE])]
             /\ delegateLog' = delegateLog

\* A public method of ElectronicBilling is entered by an idle caller.
Enter(p, name, cred, data) ==
    /\ pc[p] = "idle"
    /\ op' = [op EXCEPT ![p] = name]
    /\ argCred' = [argCred EXCEPT ![p] = cred]
    /\ dataBefore' = [dataBefore EXCEPT ![p] = data]
    /\ UNCHANGED <<resp, result, lastAuth>>

\* The frame of a method that only forwards to executeRequest.
SimpleFrame(operation, params, tokenAndSign, cont, field) ==
    [NoFrame EXCEPT !.operation = operation, !.params = params,
                    !.tokenAndSign = tokenAndSign, !.cont = cont, !.field = field]

\* The frame of createVoucher(data, returnResponse = false, tokenAndSign).
createVoucherFrame(data, returnResponse, tokenAndSign, cont, voucherNumber) ==
    [NoFrame EXCEPT
        !.operation = "FECAESolicitar",
        !.params = createVoucherRequest(data),
        !.tokenAndSign = createVoucherCredential(data, tokenAndSign),
        !.cont = cont,
        !.returnResponse = IF returnResponse = Undefined THEN JsFalse
                           ELSE returnResponse,
        !.voucherNumber = voucherNumber]

getLastVoucher(p, salesPoint, type, tokenAndSign) ==
    /\ Enter(p, "getLastVoucher", tokenAndSign, EmptyObject)
    /\ callerData' = callerData
    /\ BeginExecuteRequest(p, SimpleFrame("FECompUltimoAutorizado",
           [PtoVta |-> salesPoint, CbteTipo |-> type], tokenAndSign,
           "getLastVoucher", "CbteNro"))

createVoucher(p, data, returnResponse, tokenAndSign) ==
    /\ Enter(p, "createVoucher", tokenAndSign, data)
    /\ callerData' = [callerData EXCEPT ![p] = data]
    /\ BeginExecuteRequest(p,
           createVoucherFrame(data, returnResponse, tokenAndSign, "createVoucher", 0))

\* createNextVoucher up to its first await: getLastVoucher is called without
\* the credential.
createNextVoucher(p, data, tokenAndSign) ==
    /\ Enter(p, "createNextVoucher", tokenAndSign, data)
    /\ callerData' = [callerData EXCEPT ![p] = data]
    /\ BeginExecuteRequest(p, SimpleFrame("FECompUltimoAutorizado",
           [PtoVta |-> Get(data, "PtoVta"), CbteTipo |-> Get(data, "CbteTipo")],
           Undefined, "createNextVoucher", "CbteNro"))

getVoucherInfo(p, number, salesPoint, type, tokenAndSign) ==
    /\ Enter(p, "getVoucherInfo", tokenAndSign, EmptyObject)
    /\ callerData' = callerData
    /\ BeginExecuteRequest(p, SimpleFrame("FECompConsultar",
           [FeCompConsReq |-> [CbteNro |-> number, PtoVta |-> salesPoint,
                               CbteTipo |-> type]],
           tokenAndSign, "getVoucherInfo", "ResultGet"))

createCAEA(p, period, fortnight, tokenAndSign) ==
    /\ Enter(p, "createCAEA", tokenAndSign, EmptyObject)
    /\ callerData' = callerData
    /\ BeginExecuteRequest(p, SimpleFrame("FECAEASolicitar",
           [Periodo |-> period, Orden |-> fortnight], tokenAndSign,
           "ResultGet", "ResultGet"))

getCAEA(p, period, fortnight, tokenAndSign) ==
    /\ Enter(p, "getCAEA", tokenAndSign, EmptyObject)
    /\ callerData' = callerData
    /\ BeginExecuteRequest(p, SimpleFrame("FECAEAConsultar",
           [Periodo |-> period, Orden |-> fortnight], tokenAndSign,
           "ResultGet", "ResultGet"))

\* The eight parameter-table getters: executeRequest(operation, undefined,
\* tokenAndSign), then .ResultGet[field].
ReferenceGetter(p, name, operation, field, tokenAndSign) ==
    /\ Enter(p, name, tokenAndSign, EmptyObject)
    /\ callerData' = callerData
    /\ BeginExecuteRequest(p,
           SimpleFrame(operation, EmptyObject, tokenAndSign, "ResultGet.field", field))

getSalesPoints(p, t) ==
    ReferenceGetter(p, "getSalesPoints", "FEParamGetPtosVenta", "PtoVenta", t)

getVoucherTypes(p, t) ==
    ReferenceGetter(p, "getVoucherTypes", "FEParamGetTiposCbte", "CbteTipo", t)

getConceptTypes(p, t) ==
    ReferenceGetter(p, "getConceptTypes", "FEParamGetTiposConcepto", "ConceptoTipo", t)

getDocumentTypes(p, t) ==
    ReferenceGetter(p, "getDocumentTypes", "FEParamGetTiposDoc", "DocTipo", t)

getAliquotTypes(p, t) ==
    ReferenceGetter(p, "getAliquotTypes", "FEParamGetTiposIva", "IvaTipo", t)

getCurrenciesTypes(p, t) ==
    ReferenceGetter(p, "getCurrenciesTypes", "FEParamGetTiposMonedas", "Moneda", t)

getOptionsTypes(p, t) ==
    ReferenceGetter(p, "getOptionsTypes", "FEParamGetTiposOpcional", "OpcionalTipo", t)

getTaxTypes(p, t) ==
    ReferenceGetter(p, "getTaxTypes", "FEParamGetTiposTributos", "TributoTipo", t)

getServerStatus(p, tokenAndSign) ==
    /\ Enter(p, "getServerStatus", tokenAndSign, EmptyObject)
    /\ callerData' = callerData
    /\ BeginExecuteRequest(p,
           SimpleFrame("FEDummy", EmptyObject, tokenAndSign, "getServerStatus", ""))

(***************************************************************************)
(* RegisterScopeFour: the public methods                                   *)
(***************************************************************************)
\* getTaxpayerDetails up to its first await that leaves the process.
getTaxpayerDetails(p, identifier, tokenAndSign) ==
    /\ Enter(p, "getTaxpayerDetails", tokenAndSign, EmptyObject)
    /\ callerData' = callerData
    /\ LET fr == [NoFrame EXCEPT !.operation = "getPersona",
                                 !.tokenAndSign = tokenAndSign,
                                 !.cont = "getTaxpayerDetails",
                                 !.identifier = identifier]
       IN  IF Truthy(tokenAndSign)
           THEN LET params == getTaxpayerParams(tokenAndSign, identifier)
                IN  /\ pc' = [pc EXCEPT ![p] = "transport"]
                    /\ frame' = [frame EXCEPT ![p] = [fr EXCEPT !.params = params]]
                    /\ sent' = [sent EXCEPT ![p] = Append(@,
                                   [operation |-> "getPersona", params |-> params,
                                    tokenAndSign |-> tokenAndSign, fresh |-> FALSE])]
                    /\ delegateLog' = delegateLog
           ELSE /\ pc' = [pc EXCEPT ![p] = "auth"]
                /\ frame' = [frame EXCEPT ![p] = fr]
                /\ delegateLog' = [delegateLog EXCEPT ![p] = Append(@, "ws_sr_padron_a4")]
                /\ sent' = sent

\* RegisterScopeFour.getServerStatus: executeRequest("dummy")
rsGetServerStatus(p) ==
    /\ Enter(p, "rsGetServerStatus", Undefined, EmptyObject)
    /\ callerData' = callerData
    /\ pc' = [pc EXCEPT ![p] = "transport"]
    /\ frame' = [frame EXCEPT ![p] = [NoFrame EXCEPT !.operation = "dummy",
                                                     !.cont = "rsGetServerStatus"]]
    /\ sent' = [sent EXCEPT ![p] = Append(@,
                   [operation |-> "dummy", params |-> EmptyObject,
                    tokenAndSign |-> Undefined, fresh |-> FALSE])]
    /\ delegateLog' = delegateLog

RegistryConts == {"getTaxpayerDetails", "rsGetServerStatus"}

(***************************************************************************)
(* The awaits                                                              *)
(***************************************************************************)
\* afip.GetServiceTA resolves: the awaiting method goes on to the transport.
GetServiceTA(p) ==
    /\ pc[p] = "auth"
    /\ LET fr == frame[p]
           params == IF fr.cont = "getTaxpayerDetails"
                     THEN getTaxpayerParams(ServiceTA, fr.identifier)
                     ELSE ObjectAssign(fr.params,
                              getWSInitialRequest(fr.operation, ServiceTA))
       IN  /\ frame' = [frame EXCEPT ![p] = [fr EXCEPT !.params = params]]
           /\ sent' = [sent EXCEPT ![p] = Append(@,
                          [operation |-> fr.operation, params |-> params,
                           tokenAndSign |-> fr.tokenAndSign, fresh |-> TRUE])]
    /\ pc' = [pc EXCEPT ![p] = "transport"]
    /\ UNCHANGED <<op, argCred, callerData, dataBefore, delegateLog, resp, result,
                   lastAuth>>

\* afip.GetServiceTA fails: the failure leaves the method as it is.
GetServiceTAFail(p) ==
    /\ pc[p] = "auth"
    /\ pc' = [pc EXCEPT ![p] = "done"]
    /\ result' = [result EXCEPT ![p] = Rejected(ServiceTAFailure)]
    /\ UNCHANGED <<op, frame, argCred, callerData, dataBefore, sent, delegateLog,
                   resp, lastAuth>>

\* What the method returns once its executeRequest settled with e (every
\* method but createNextVoucher's first half).
MethodReturn(fr, e) ==
    CASE fr.cont = "getLastVoucher"  -> ThenProp(e, "CbteNro")
      [] fr.cont = "createVoucher"   ->
           IF IsRejected(e) THEN e ELSE createVoucherReturn(e.value, fr.returnResponse)
      [] fr.cont = "createNextVoucher.createVoucher" ->
           LET res == IF IsRejected(e) THEN e
                      ELSE createVoucherReturn(e.value, fr.returnResponse)
           IN  IF IsRejected(res) THEN res
               ELSE IF ~Truthy(res.value) THEN Rejected(TypeError)
               ELSE Resolved(Put(res.value, "voucherNumber", fr.voucherNumber))
      [] fr.cont = "getVoucherInfo"  -> getVoucherInfoReturn(e)
      [] fr.cont = "ResultGet"       -> ThenProp(e, "ResultGet")
      [] fr.cont = "ResultGet.field" -> ThenProp(ThenProp(e, "ResultGet"), fr.field)
      [] fr.cont = "getServerStatus" -> e
      [] fr.cont = "getTaxpayerDetails" -> getTaxpayerDetailsReturn(e)
      [] fr.cont = "rsGetServerStatus"  -> e

\* createNextVoucher, lines 125-130, once getLastVoucher gave lastVoucher:
\* the caller's data object gets the number, and createVoucher is called with
\* the credential in the place of returnResponse.
NextVoucherData(data, voucherNumber) ==
    Put(Put(data, "CbteDesde", voucherNumber), "CbteHasta", voucherNumber)

\* super.executeRequest settled with t: the rest of the method runs.
Settle(p, t) ==
    LET fr == frame[p]
        e  == IF fr.cont \in RegistryConts THEN rsExecuteRequest(fr.operation, t)
              ELSE executeRequest(fr.operation, t)
        last == ThenProp(e, "CbteNro")
    IN  /\ resp' = [resp EXCEPT ![p] = Append(@, t)]
        /\ IF fr.cont = "createNextVoucher" /\ IsResolved(last)
           THEN LET voucherNumber == last.value + 1
                    data == NextVoucherData(callerData[p], voucherNumber)
                IN  /\ callerData' = [callerData EXCEPT ![p] = data]
                    /\ BeginExecuteRequest(p,
                           createVoucherFrame(data, argCred[p], Undefined,
                               "createNextVoucher.createVoucher", voucherNumber))
                    /\ result' = result
           ELSE /\ pc' = [pc EXCEPT ![p] = "done"]
                /\ result' = [result EXCEPT ![p] =
                       IF fr.cont = "createNextVoucher" THEN last
                       ELSE MethodReturn(fr, e)]
                /\ UNCHANGED <<frame, sent, delegateLog, callerData>>
        /\ UNCHANGED <<op, argCred, dataBefore>>

\* The transport delivers the remote's answer.
TransportReply(p) ==
    /\ pc[p] = "transport"
    /\ LET fr == frame[p]
       IN  IF fr.cont \in RegistryConts
           THEN \E r \in RegistryAnswers(fr.operation, fr.params) :
                    /\ Settle(p, Resolved(r))
                    /\ lastAuth' = lastAuth
           ELSE \E a \in RemoteAnswers(fr.operation, fr.params, lastAuth) :
                    /\ Settle(p, Resolved(Obj1(ResultKey(fr.operation), a[1])))
                    /\ lastAuth' = a[2]

\* The transport fails.
TransportFail(p) ==
    /\ pc[p] = "transport"
    /\ LET fr == frame[p]
       IN  \E err \in (IF fr.cont \in RegistryConts
                       THEN RegistryFailures(fr.operation, fr.params)
                       ELSE TransportFailures) :
               Settle(p, Rejected(err))
    /\ lastAuth' = lastAuth

\* The caller takes the result; it may call again.
Return(p) ==
    /\ pc[p] = "done"
    /\ pc' = [pc EXCEPT ![p] = "idle"]
    /\ op' = [op EXCEPT ![p] = ""]
    /\ frame' = [frame EXCEPT ![p] = NoFrame]
    /\ argCred' = [argCred EXCEPT ![p] = Undefined]
    /\ callerData' = [callerData EXCEPT ![p] = EmptyObject]
    /\ dataBefore' = [dataBefore EXCEPT ![p] = EmptyObject]
    /\ sent' = [sent EXCEPT ![p] = <<>>]
    /\ delegateLog' = [delegateLog EXCEPT ![p] = <<>>]
    /\ resp' = [resp EXCEPT ![p] = <<>>]
    /\ result' = [result EXCEPT ![p] = Pending]
    /\ lastAuth' = lastAuth

(***************************************************************************)
(* Inputs                                                                  *)
(***************************************************************************)
\* The lists a caller may give for a plural field.
ListValues(k) ==
    IF k = "Tributos"
    THEN {Arr(<<[Id |-> 99, Importe |-> 5], [Id |-> 2, Importe |-> 3]>>), Arr(<<>>)}
    ELSE {Arr(<<[Id |-> 5], [Id |-> 4]>>)}

\* The data objects with the plural fields of present, each with one of its lists.
WithPlurals(base, present) ==
    {ObjectAssign(base, f) : f \in [present -> UNION {ListValues(k) : k \in present}]
                                 \cap {g \in [present -> UNION {ListValues(k) : k \in present}] :
                                          \A k \in present : g[k] \in ListValues(k)}}

\* The sets of plural fields a caller gives: none or one of them, or all or
\* all but one, so that each is seen present and absent beside the others.
PresentSets ==
    {s \in SUBSET PluralFields : Cardinality(s) <= 1 \/ Cardinality(PluralFields \ s) <= 1}

\* The data objects with or without an own "token" property.
WithToken(objs) == objs \cup {Put(d, "token", CallerCredential) : d \in objs}

VoucherBases ==
    {[PtoVta |-> sp, CbteTipo |-> ty, Concepto |-> 1, CbteDesde |-> a, CbteHasta |-> b] :
        sp \in SalesPoints, ty \in VoucherTypes,
        a \in 1 .. MaxVoucher, b \in 1 .. MaxVoucher}

VoucherRequests ==
    WithToken(UNION {WithPlurals(base, present) :
                        base \in {v \in VoucherBases : v.CbteDesde <= v.CbteHasta},
                        present \in PresentSets})

NextVoucherBases ==
    {[PtoVta |-> sp, CbteTipo |-> ty, Concepto |-> 1] :
        sp \in SalesPoints, ty \in VoucherTypes}

NextVoucherRequests ==
    WithToken(UNION {WithPlurals(base, present) :
                        base \in NextVoucherBases, present \in PresentSets})

ReturnResponseArgs == {Undefined, JsFalse, JsTrue}

Periods == {202304}

Fortnights == {1, 2}

(***************************************************************************)
(* Specifications                                                          *)
(***************************************************************************)
\* One caller, every public method of both clients.
Next ==
    \E p \in {"c1"} :
        \/ \E t \in CredentialArgs, sp \in SalesPoints, ty \in VoucherTypes :
               getLastVoucher(p, sp, ty, t)
        \/ \E t \in CredentialArgs, d \in VoucherRequests, r \in ReturnResponseArgs :
               createVoucher(p, d, r, t)
        \/ \E t \in CredentialArgs, d \in NextVoucherRequests :
               createNextVoucher(p, d, t)
        \/ \E t \in CredentialArgs, n \in 1 .. MaxVoucher, sp \in SalesPoints,
              ty \in VoucherTypes :
               getVoucherInfo(p, n, sp, ty, t)
        \/ \E t \in CredentialArgs, per \in Periods, f \in Fortnights :
               createCAEA(p, per, f, t)
        \/ \E t \in CredentialArgs, per \in Periods, f \in Fortnights :
               getCAEA(p, per, f, t)
        \/ \E t \in CredentialArgs : getSalesPoints(p, t)
        \/ \E t \in CredentialArgs : getVoucherTypes(p, t)
        \/ \E t \in CredentialArgs : getConceptTypes(p, t)
        \/ \E t \in CredentialArgs : getDocumentTypes(p, t)
        \/ \E t \in CredentialArgs : getAliquotTypes(p, t)
        \/ \E t \in CredentialArgs : getCurrenciesTypes(p, t)
        \/ \E t \in CredentialArgs : getOptionsTypes(p, t)
        \/ \E t \in CredentialArgs : getTaxTypes(p, t)
        \/ \E t \in CredentialArgs : getServerStatus(p, t)
        \/ \E t \in CredentialArgs, id \in Identifiers : getTaxpayerDetails(p, id, t)
        \/ rsGetServerStatus(p)
        \/ GetServiceTA(p)
        \/ GetServiceTAFail(p)
        \/ TransportReply(p)
        \/ TransportFail(p)
        \/ Return(p)

Spec == Init /\ [][Next]_vars

\* Two callers of createNextVoucher on the same sales point and voucher type,
\* with nothing serializing them.
NextRace ==
    \E p \in Callers :
        \/ \E t \in CredentialArgs, d \in NextVoucherBases : createNextVoucher(p, d, t)
        \/ GetServiceTA(p)
        \/ GetServiceTAFail(p)
        \/ TransportReply(p)
        \/ TransportFail(p)

SpecRace == Init /\ [][NextRace]_vars

(***************************************************************************)
(* Properties                                                              *)
(***************************************************************************)
Done(p) == pc[p] = "done"

RegistryOperations == {"getPersona", "dummy"}

\* The requests of caller p that went through ElectronicBilling.executeRequest.
InvoicingRequests(p) ==
    {i \in 1 .. Len(sent[p]) : sent[p][i].operation \notin RegistryOperations}

\* C1: every request ElectronicBilling.executeRequest hands to the transport
\* for an operation other than FEDummy carries one Auth block {Token, Sign,
\* Cuit} whose Token and Sign are those of the credential executeRequest was
\* given, or, when it was given none, of one obtained from GetServiceTA for
\* this request; the FEDummy request carries no Auth block and GetServiceTA
\* is not asked for it.
C1_AuthBlock ==
    \A p \in Callers :
        /\ \A i \in InvoicingRequests(p) :
              LET q == sent[p][i]
              IN  IF q.operation = "FEDummy"
                  THEN ~Has(q.params, "Auth") /\ ~q.fresh
                  ELSE /\ Has(q.params, "Auth")
                       /\ DOMAIN q.params.Auth = {"Token", "Sign", "Cuit"}
                       /\ q.params.Auth.Cuit = CUIT
                       /\ IF q.tokenAndSign \notin {Undefined, Null}
                          THEN /\ ~q.fresh
                               /\ q.params.Auth.Token = q.tokenAndSign.token
                               /\ q.params.Auth.Sign = q.tokenAndSign.sign
                          ELSE /\ q.fresh
                               /\ q.params.Auth.Token = ServiceTA.token
                               /\ q.params.Auth.Sign = ServiceTA.sign
        /\ op[p] = "getServerStatus" => delegateLog[p] = <<>> /\ pc[p] # "auth"

\* C1 witness: a createNextVoucher call has sent both of its requests, the
\* first with a credential from GetServiceTA, the second with the one supplied
\* in data.
C1_Witness ==
    \E p \in Callers :
        /\ op[p] = "createNextVoucher" /\ Len(sent[p]) = 2
        /\ sent[p][1].fresh /\ ~sent[p][2].fresh
        /\ sent[p][2].params.Auth.Token = CallerCredential.token

InvoicingMethods ==
    {"getLastVoucher", "createVoucher", "createNextVoucher", "getVoucherInfo",
     "createCAEA", "getCAEA", "getSalesPoints", "getVoucherTypes", "getConceptTypes",
     "getDocumentTypes", "getAliquotTypes", "getCurrenciesTypes", "getOptionsTypes",
     "getTaxTypes", "getServerStatus"}

\* C2: when the caller of a public method of the invoicing client supplies a
\* credential, GetServiceTA is not invoked during the call and every request
\* of the call that carries an Auth block carries the supplied token and sign.
C2_SuppliedCredentialUsed ==
    \A p \in Callers :
        (op[p] \in InvoicingMethods /\ argCred[p] \notin {Undefined, Null}) =>
            /\ delegateLog[p] = <<>>
            /\ \A i \in InvoicingRequests(p) :
                  LET q == sent[p][i]
                  IN  q.operation # "FEDummy" =>
                         /\ Has(q.params, "Auth")
                         /\ q.params.Auth.Token = argCred[p].token
                         /\ q.params.Auth.Sign = argCred[p].sign

\* The wrapper element the remote schema wants around each plural field.
ExpectedWrapper ==
    [Tributos |-> "Tributo", Iva |-> "AlicIva", CbtesAsoc |-> "CbteAsoc",
     Compradores |-> "Comprador", Opcionales |-> "Opcional"]

\* C3: the FECAEDetRequest that createVoucher submits holds each plural field
\* of the caller's data wrapped under its singular name around the caller's
\* list, holds no plural field the caller did not give, and the caller's data
\* object is as it was before the call.
C3_PluralFieldsWrapped ==
    \A p \in Callers :
        op[p] = "createVoucher" =>
            /\ callerData[p] = dataBefore[p]
            /\ Len(sent[p]) >= 1 =>
                  LET det == sent[p][1].params.FeCAEReq.FeDetReq.FECAEDetRequest
                  IN  \A k \in DOMAIN ExpectedWrapper :
                         IF Has(dataBefore[p], k)
                         THEN /\ Has(det, k)
                              /\ DOMAIN det[k] = {ExpectedWrapper[k]}
                              /\ det[k][ExpectedWrapper[k]] = dataBefore[p][k]
                         ELSE ~Has(det, k)

\* C3 witness: a createVoucher call has submitted a request for data that has
\* Tributos (a list of two entries) and has no Iva.
C3_Witness ==
    \E p \in Callers :
        /\ op[p] = "createVoucher" /\ Done(p) /\ Len(sent[p]) = 1
        /\ Has(dataBefore[p], "Tributos") /\ Len(dataBefore[p]["Tributos"].arr) = 2
        /\ ~Has(dataBefore[p], "Iva")

\* The <operation>Result subtree of the last response the transport gave p.
LastResult(p, operation) == resp[p][Len(resp[p])].value[operation \o "Result"]

\* The transport answered the last request of p's call with a response tree.
Answered(p) == Done(p) /\ resp[p] # <<>> /\ resp[p][Len(resp[p])].status = "resolved"

\* The detail element of a FECAESolicitar result, bare or in an array.
DetailOf(res) ==
    IF "arr" \in DOMAIN res.FeDetResp.FECAEDetResponse
    THEN res.FeDetResp.FECAEDetResponse.arr[1]
    ELSE res.FeDetResp.FECAEDetResponse

\* The first entry of an error or observation list, single or several.
FirstEntry(list) == IF "arr" \in DOMAIN list THEN list.arr[1] ELSE list

\* C4: getVoucherInfo resolves to null when the response carries an error
\* with code 602, and is rejected with a failure that carries the code when
\* the response carries any other error code.
C4_NotFoundIsNull ==
    \A p \in Callers :
        (op[p] = "getVoucherInfo" /\ Answered(p)
            /\ Has(LastResult(p, "FECompConsultar"), "Errors")) =>
            LET code == FirstEntry(LastResult(p, "FECompConsultar").Errors.Err).Code
            IN  IF code = 602
                THEN result[p] = Resolved(Null)
                ELSE /\ IsRejected(result[p])
                     /\ Contains(result[p].err.message, <<ToString(code)>>)

\* A createVoucher call of p was answered with a detail section whose outcome
\* is not "A".
NotApproved(p) ==
    /\ op[p] = "createVoucher" /\ Answered(p)
    /\ Has(LastResult(p, "FECAESolicitar"), "FeDetResp")
    /\ DetailOf(LastResult(p, "FECAESolicitar")).Resultado # "A"

\* C5: createVoucher, answered with a detail whose outcome is not "A" and
\* that has observations, is rejected with a failure whose message holds the
\* code and the message of the first observation, whatever returnResponse is.
C5_FirstObservationRaised ==
    \A p \in Callers :
        (NotApproved(p)
            /\ Has(DetailOf(LastResult(p, "FECAESolicitar")), "Observaciones")) =>
            LET first == FirstEntry(
                    DetailOf(LastResult(p, "FECAESolicitar")).Observaciones.Obs)
            IN  /\ IsRejected(result[p])
                /\ Contains(result[p].err.message, <<ToString(first.Code)>>)
                /\ Contains(result[p].err.message, first.Msg)

\* C5 witness: a createVoucher call that asked for the full response was
\* answered with a rejected detail that has several observations.
C5_Witness ==
    \E p \in Callers :
        /\ NotApproved(p)
        /\ frame[p].returnResponse = JsTrue
        /\ Has(DetailOf(LastResult(p, "FECAESolicitar")), "Observaciones")
        /\ "arr" \in DOMAIN DetailOf(LastResult(p, "FECAESolicitar")).Observaciones.Obs
        /\ IsRejected(result[p])

\* C6: createVoucher never returns successfully for a response whose detail
\* section reports an outcome other than "A".
C6_NotApprovedFails ==
    \A p \in Callers : NotApproved(p) => IsRejected(result[p])

\* The response with its one-element detail array replaced by the element.
BareDetail(results) ==
    [results EXCEPT !["FECAESolicitarResult"].FeDetResp.FECAEDetResponse = @.arr[1]]

\* A createVoucher call of p was answered with the detail section as an array.
ArrayDetail(p) ==
    /\ op[p] = "createVoucher" /\ Answered(p)
    /\ Has(LastResult(p, "FECAESolicitar"), "FeDetResp")
    /\ "arr" \in DOMAIN LastResult(p, "FECAESolicitar").FeDetResp.FECAEDetResponse

\* C7: a createVoucher call answered with the detail section [d] settles as
\* the same call settles when it is answered with the bare d, for either
\* value of returnResponse.
C7_ArrayAsBare ==
    \A p \in Callers :
        ArrayDetail(p) =>
            result[p] = MethodReturn(frame[p],
                            executeRequest("FECAESolicitar",
                                Resolved(BareDetail(resp[p][Len(resp[p])].value))))

\* C7 witness: a createVoucher call that asked for the full response was
\* answered with an approved detail in an array, and returned.
C7_Witness ==
    \E p \in Callers :
        /\ ArrayDetail(p)
        /\ frame[p].returnResponse = JsTrue
        /\ IsResolved(result[p])

\* "No existe" occurs in the message.
SaysNoExiste(message) ==
    \E i \in 1 .. (Len(message) - 1) : message[i] = "No" /\ message[i + 1] = "existe"

\* C8: getTaxpayerDetails resolves to null when the lookup fails with a
\* message that contains "No existe", is rejected with the same error when
\* the lookup fails otherwise, and resolves to personaReturn.persona when the
\* lookup succeeds.
C8_TaxpayerNotFoundIsNull ==
    \A p \in Callers :
        (op[p] = "getTaxpayerDetails" /\ Done(p) /\ resp[p] # <<>>) =>
            LET t == resp[p][1]
            IN  IF t.status = "rejected"
                THEN IF SaysNoExiste(t.err.message)
                     THEN result[p] = Resolved(Null)
                     ELSE result[p] = Rejected(t.err)
                ELSE result[p] = Resolved(t.value.personaReturn.persona)

\* C8 witness: a lookup failed with "No existe" inside a longer message and
\* the call resolved to null.
C8_Witness ==
    \E p \in Callers :
        /\ op[p] = "getTaxpayerDetails" /\ Done(p) /\ resp[p] # <<>>
        /\ resp[p][1].status = "rejected"
        /\ resp[p][1].err.message[1] # "No"
        /\ SaysNoExiste(resp[p][1].err.message)
        /\ result[p] = Resolved(Null)

\* C9: after createNextVoucher(data) completes, the caller's data object has
\* the keys and values it had before the call.
C9_CallerDataUntouched ==
    \A p \in Callers :
        (op[p] = "createNextVoucher" /\ Done(p)) => callerData[p] = dataBefore[p]

\* p's createNextVoucher call returned successfully.
Returned(p) == op[p] = "createNextVoucher" /\ Done(p) /\ IsResolved(result[p])

\* C10: each createNextVoucher call submits CbteDesde = CbteHasta = (the last
\* number it read) + 1 with CantReg = 1, and two concurrent calls never both
\* return successfully with the same voucherNumber.
C10_NoDuplicateNumber ==
    /\ \A p \in Callers :
          (op[p] = "createNextVoucher" /\ Len(sent[p]) = 2) =>
              LET req  == sent[p][2].params.FeCAEReq
                  read == resp[p][1].value["FECompUltimoAutorizadoResult"].CbteNro
              IN  /\ req.FeCabReq.CantReg = 1
                  /\ req.FeDetReq.FECAEDetRequest.CbteDesde = read + 1
                  /\ req.FeDetReq.FECAEDetRequest.CbteHasta = read + 1
    /\ \A p, q \in Callers :
          (p # q /\ Returned(p) /\ Returned(q)) =>
              result[p].value.voucherNumber # result[q].value.voucherNumber

====
